---- MODULE Spec2Model ----
(***************************************************************************)
(* Model of gala/potential/potential/builtin/pybuiltin.py:                 *)
(* HarmonicOscillatorPotential and KuzminPotential.                        *)
(*                                                                         *)
(* Numbers are exact: a finite value is (n/d)*sqrt(r) with r squarefree,   *)
(* which is closed under every operation the two classes perform on        *)
(* rational inputs (+, *, **2, abs, sqrt, **1.5, /).  Division by zero     *)
(* follows numpy: x/0 is +-inf, 0/0 is nan (a warning, no exception).      *)
(* Arrays are numpy ndarrays: a shape and one value per index tuple.       *)
(***************************************************************************)
EXTENDS Integers, Sequences, FiniteSets, TLC

(***************************************************************************)
(* Bounds of the model.                                                    *)
(***************************************************************************)
MaxDim == 2      \* longest omega / longest row of a harmonic batch
MaxN == 2        \* most samples in a batch
NThreads == 2    \* threads evaluating concurrently on one instance

(***************************************************************************)
(* Exact numbers.                                                          *)
(***************************************************************************)
RECURSIVE GCD(_, _)
GCD(a, b) == IF b = 0 THEN a ELSE GCD(b, a % b)

IAbs(i) == IF i < 0 THEN -i ELSE i

ISign(i) == IF i < 0 THEN -1 ELSE IF i = 0 THEN 0 ELSE 1

\* the largest s with s*s dividing r (r >= 1), found by trial division from p
RECURSIVE SquarePart(_, _)
SquarePart(r, p) ==
    IF p * p > r THEN 1
    ELSE IF r % (p * p) = 0 THEN p * SquarePart(r \div (p * p), p)
    ELSE SquarePart(r, p + 1)

Inf == [k |-> "inf", n |-> 1, d |-> 0, r |-> 1]

NInf == [k |-> "inf", n |-> -1, d |-> 0, r |-> 1]

NaN == [k |-> "nan", n |-> 0, d |-> 0, r |-> 1]

\* the finite value (n/d)*sqrt(r) in normal form, d # 0, r >= 0
Num(n, d, r) ==
    IF n = 0 \/ r = 0 THEN [k |-> "fin", n |-> 0, d |-> 1, r |-> 1]
    ELSE LET s  == SquarePart(r, 2)
             nn == n * s * ISign(d)
             dd == IAbs(d)
             g  == GCD(IAbs(nn), dd)
         IN  [k |-> "fin", n |-> nn \div g, d |-> dd \div g, r |-> r \div (s * s)]

F(i) == Num(i, 1, 1)

Half == Num(1, 2, 1)

IsFin(a) == a.k = "fin"

VNeg(a) == [a EXCEPT !.n = -a.n]

VAbs(a) == [a EXCEPT !.n = IAbs(a.n)]

VMul(a, b) ==
    IF a.k = "nan" \/ b.k = "nan" THEN NaN
    ELSE IF IsFin(a) /\ IsFin(b) THEN Num(a.n * b.n, a.d * b.d, a.r * b.r)
    ELSE IF a.n = 0 \/ b.n = 0 THEN NaN          \* inf * 0
    ELSE IF ISign(a.n) * ISign(b.n) > 0 THEN Inf ELSE NInf

\* the sums the code forms are of values over one radicand, or with a zero
VAdd(a, b) ==
    IF a.k = "nan" \/ b.k = "nan" THEN NaN
    ELSE IF IsFin(a) /\ IsFin(b)
         THEN IF a.n = 0 THEN b
              ELSE IF b.n = 0 THEN a
              ELSE Num(a.n * b.d + b.n * a.d, a.d * b.d, a.r)
    ELSE IF ~IsFin(a) /\ ~IsFin(b) THEN (IF a.n = b.n THEN a ELSE NaN)
    ELSE IF IsFin(a) THEN b ELSE a

VSub(a, b) == VAdd(a, VNeg(b))

\* 1/b for finite b # 0:  1/((n/d) sqrt r) = (d sqrt r)/(n r)
VDiv(a, b) ==
    IF a.k = "nan" \/ b.k = "nan" THEN NaN
    ELSE IF ~IsFin(b) THEN (IF IsFin(a) THEN F(0) ELSE NaN)
    ELSE IF b.n = 0
         THEN IF a.n = 0 THEN NaN ELSE IF a.n > 0 THEN Inf ELSE NInf
    ELSE VMul(a, Num(b.d, b.n * b.r, b.r))

\* np.sqrt of a rational: sqrt(n/d) = sqrt(n d)/d; negative gives nan
VSqrt(a) ==
    IF a.k = "nan" THEN NaN
    ELSE IF ~IsFin(a) THEN (IF a.n > 0 THEN Inf ELSE NaN)
    ELSE IF a.n < 0 THEN NaN
    ELSE Num(1, a.d, a.n * a.d)

VSquare(a) == VMul(a, a)

\* a ** 1.5 = a * sqrt(a)
VPow15(a) == VMul(a, VSqrt(a))

(***************************************************************************)
(* numpy arrays: [shape, at], at maps each index tuple to a value.         *)
(***************************************************************************)
Indices(shape) ==
    IF Len(shape) = 0 THEN {<<>>}
    ELSE IF Len(shape) = 1 THEN {<<i>> : i \in 1..shape[1]}
    ELSE IF Len(shape) = 2
         THEN {<<i, j>> : i \in 1..shape[1], j \in 1..shape[2]}
    ELSE {<<i, j, l>> : i \in 1..shape[1], j \in 1..shape[2], l \in 1..shape[3]}

Scalar(v) == [shape |-> <<>>, at |-> (<<>> :> v)]

\* the outcome of an operation that raises instead of returning an array
ShapeError == [raised |-> "ValueError"]

IsArray(x) == "shape" \in DOMAIN x

IMax(a, b) == IF a > b THEN a ELSE b

\* a shape padded on the left with 1s to the given rank
Pad(shape, rank) == [d \in 1..rank |->
    IF d <= rank - Len(shape) THEN 1 ELSE shape[d - (rank - Len(shape))]]

\* numpy broadcasting of two shapes
CanBroadcast(sa, sb) ==
    LET rank == IMax(Len(sa), Len(sb))
        pa == Pad(sa, rank)
        pb == Pad(sb, rank)
    IN  \A d \in 1..rank : pa[d] = pb[d] \/ pa[d] = 1 \/ pb[d] = 1

BroadcastShape(sa, sb) ==
    LET rank == IMax(Len(sa), Len(sb))
        pa == Pad(sa, rank)
        pb == Pad(sb, rank)
    IN  [d \in 1..rank |-> IF pa[d] = 1 THEN pb[d] ELSE pa[d]]

\* the index of a's element that lands at index i of the broadcast result
Source(a, i) ==
    LET off == Len(i) - Len(a.shape)
    IN  [d \in 1..Len(a.shape) |-> IF a.shape[d] = 1 THEN 1 ELSE i[d + off]]

\* the scalar operation a ufunc applies to each pair of elements
Apply2(op, x, y) ==
    IF op = "*" THEN VMul(x, y) ELSE IF op = "+" THEN VAdd(x, y) ELSE VDiv(x, y)

Apply1(op, x) ==
    IF op = "**2" THEN VSquare(x)
    ELSE IF op = "abs" THEN VAbs(x)
    ELSE IF op = "sqrt" THEN VSqrt(x)
    ELSE IF op = "**1.5" THEN VPow15(x)
    ELSE VNeg(x)

\* an elementwise binary operation; ValueError when the shapes do not broadcast
Map2(op, a, b) ==
    IF ~IsArray(a) \/ ~IsArray(b) THEN ShapeError
    ELSE IF ~CanBroadcast(a.shape, b.shape) THEN ShapeError
    ELSE LET shape == BroadcastShape(a.shape, b.shape)
         IN  [shape |-> shape,
              at |-> [i \in Indices(shape) |->
                        Apply2(op, a.at[Source(a, i)], b.at[Source(b, i)])]]

Map1(op, a) ==
    IF ~IsArray(a) THEN ShapeError
    ELSE [shape |-> a.shape, at |-> [i \in Indices(a.shape) |-> Apply1(op, a.at[i])]]

NpMul(a, b) == Map2("*", a, b)

NpAdd(a, b) == Map2("+", a, b)

NpDiv(a, b) == Map2("/", a, b)

NpSquare(a) == Map1("**2", a)

NpAbs(a) == Map1("abs", a)

NpSqrt(a) == Map1("sqrt", a)

NpPow15(a) == Map1("**1.5", a)

NpNeg(a) == Map1("neg", a)

\* np.atleast_1d: a 0-d array becomes 1-d of length 1, others are unchanged
AtLeast1d(a) ==
    IF Len(a.shape) = 0
    THEN [shape |-> <<1>>, at |-> [i \in Indices(<<1>>) |-> a.at[<<>>]]]
    ELSE a

\* len(a)
NpLen(a) == a.shape[1]

\* a[None]: a new leading axis of length 1
NewAxis0(a) ==
    IF ~IsArray(a) THEN ShapeError
    ELSE [shape |-> <<1>> \o a.shape,
          at |-> [i \in Indices(<<1>> \o a.shape) |-> a.at[Tail(i)]]]

\* a[:, :, None] of a 2-d array
NewAxis2(a) ==
    [shape |-> a.shape \o <<1>>,
     at |-> [i \in Indices(a.shape \o <<1>>) |-> a.at[<<i[1], i[2]>>]]]

\* a[i, j] + a[i, j+1] + ... to the end of row i of a 2-d array
RECURSIVE SumFrom(_, _, _)
SumFrom(a, i, j) ==
    IF j > a.shape[2] THEN F(0) ELSE VAdd(a.at[<<i, j>>], SumFrom(a, i, j + 1))

\* np.sum(a, axis=1) of a 2-d array
SumAxis1(a) ==
    IF ~IsArray(a) THEN ShapeError
    ELSE [shape |-> <<a.shape[1]>>,
          at |-> [i \in Indices(<<a.shape[1]>>) |-> SumFrom(a, i[1], 1)]]

\* np.diag of a 1-d array
NpDiag(v) ==
    [shape |-> <<v.shape[1], v.shape[1]>>,
     at |-> [i \in Indices(<<v.shape[1], v.shape[1]>>) |->
               IF i[1] = i[2] THEN v.at[<<i[1]>>] ELSE F(0)]]

\* np.tile(a, reps=(1, 1, n)) of a 3-d array
Tile3(a, n) ==
    [shape |-> <<a.shape[1], a.shape[2], a.shape[3] * n>>,
     at |-> [i \in Indices(<<a.shape[1], a.shape[2], a.shape[3] * n>>) |->
               a.at[<<i[1], i[2], ((i[3] - 1) % a.shape[3]) + 1>>]]]

\* a[i]: the i-th entry along the first axis, as in "x, y, z = q"
Row(a, i) ==
    [shape |-> Tail(a.shape),
     at |-> [j \in Indices(Tail(a.shape)) |-> a.at[<<i>> \o j]]]

(***************************************************************************)
(* PotentialBase (gala/potential/potential/core.py): what the two classes  *)
(* inherit.  A fresh instance has the class default ndim and the resolved  *)
(* gravitational constant; the base setup hook stores the parameters.      *)
(***************************************************************************)
PotentialBaseNdim == 3

NoParameters == [x \in {} |-> Scalar(F(0))]

PotentialBaseNew(cls, G) ==
    [cls |-> cls, ndim |-> PotentialBaseNdim, G |-> G, parameters |-> NoParameters]

PotentialBaseSetup(self, parameters) == [self EXCEPT !.parameters = parameters]

\* Quantity.value: the unit-stripped number(s); the values of the model carry no unit
Value(x) == x

(***************************************************************************)
(* class HarmonicOscillatorPotential                                       *)
(***************************************************************************)
\* faulty variant: ndim not set from the coerced omega
HO_setup_potential_StaleNdim(self, parameters) ==
    LET s0 == PotentialBaseSetup(self, parameters)
    IN  [s0 EXCEPT !.parameters.omega = AtLeast1d(s0.parameters.omega)]

HO_setup_potential(self, parameters) ==
    LET s0 == PotentialBaseSetup(self, parameters)
        s1 == [s0 EXCEPT !.parameters.omega = AtLeast1d(s0.parameters.omega)]
    IN  [s1 EXCEPT !.ndim = NpLen(s1.parameters.omega)]

\* om = np.atleast_1d(self.parameters['omega'].value)
HO_load(self) == [om |-> AtLeast1d(Value(self.parameters.omega))]

\* faulty variant: the factor 0.5 forgotten
HO_energy_body_NoHalf(loc, q) ==
    SumAxis1(NpMul(NpSquare(NewAxis0(loc.om)), NpSquare(q)))

\* np.sum(0.5 * om[None]**2 * q**2, axis=1)
HO_energy_body(loc, q) ==
    SumAxis1(NpMul(NpMul(Scalar(Half), NpSquare(NewAxis0(loc.om))), NpSquare(q)))

\* faulty variant: omega not squared
HO_gradient_body_Linear(loc, q) == NpMul(NewAxis0(loc.om), q)

\* om[None]**2 * q
HO_gradient_body(loc, q) == NpMul(NpSquare(NewAxis0(loc.om)), q)

\* faulty variant: the matrix scaled by the first coordinate of the batch
HO_hessian_body_Scaled(loc, q) ==
    NpMul(Tile3(NewAxis2(NpDiag(loc.om)), q.shape[1]), Scalar(q.at[<<1, 1>>]))

\* np.tile(np.diag(om)[:, :, None], reps=(1, 1, q.shape[0]))
HO_hessian_body(loc, q) == Tile3(NewAxis2(NpDiag(loc.om)), q.shape[1])

HO_energy(self, q, t) == HO_energy_body(HO_load(self), q)

HO_gradient(self, q, t) == HO_gradient_body(HO_load(self), q)

HO_hessian(self, q, t) == HO_hessian_body(HO_load(self), q)

(***************************************************************************)
(* class KuzminPotential                                                   *)
(***************************************************************************)
\* x, y, z = q;  m = self.parameters['m'];  a = self.parameters['a']
Kuzmin_load(self, q) ==
    IF q.shape[1] # 3 THEN ShapeError
    ELSE [x |-> Row(q, 1), y |-> Row(q, 2), z |-> Row(q, 3),
          m |-> self.parameters.m, a |-> self.parameters.a]

Raised(loc) == "raised" \in DOMAIN loc

\* faulty variant: z used without np.abs
KuzminDenominator_NoAbs(x, y, z, a) ==
    NpAdd(NpAdd(NpSquare(x), NpSquare(y)), NpSquare(NpAdd(a, z)))

\* x**2 + y**2 + (a + np.abs(z))**2
KuzminDenominator(x, y, z, a) ==
    NpAdd(NpAdd(NpSquare(x), NpSquare(y)), NpSquare(NpAdd(a, NpAbs(z))))

\* faulty variant: the flattening length a left out of the divisor
Kuzmin_energy_body_NoFlattening(self, loc, q) ==
    IF Raised(loc) THEN loc
    ELSE NpDiv(NpMul(NpNeg(Scalar(self.G)), loc.m),
               NpSqrt(KuzminDenominator(loc.x, loc.y, loc.z, Scalar(F(0)))))

\* -self.G * m / np.sqrt(x**2 + y**2 + (a + np.abs(z))**2)
Kuzmin_energy_body(self, loc, q) ==
    IF Raised(loc) THEN loc
    ELSE NpDiv(NpMul(NpNeg(Scalar(self.G)), loc.m),
               NpSqrt(KuzminDenominator(loc.x, loc.y, loc.z, loc.a)))

\* fac = self.G * m / (...)**1.5;  fac[None, ...] * q
Kuzmin_gradient_body(self, loc, q) ==
    IF Raised(loc) THEN loc
    ELSE LET fac == NpDiv(NpMul(Scalar(self.G), loc.m),
                          NpPow15(KuzminDenominator(loc.x, loc.y, loc.z, loc.a)))
         IN  NpMul(NewAxis0(fac), q)

Kuzmin_energy(self, q, t) == Kuzmin_energy_body(self, Kuzmin_load(self, q), q)

Kuzmin_gradient(self, q, t) == Kuzmin_gradient_body(self, Kuzmin_load(self, q), q)

(***************************************************************************)
(* Inputs.                                                                 *)
(***************************************************************************)
HO == "HarmonicOscillatorPotential"

Kuzmin == "KuzminPotential"

OmegaVals == {1, 2}

QVals == {-2, 1}

TVals == {0, 1}

GVals == {1, 2}

MVals == {0, 1, 3}

AVals == {-1, 0, 1}

\* sample points (x, y, z) of Kuzmin batches
KPoints == {<<0, 0, 0>>, <<1, 2, 1>>, <<1, 2, -1>>, <<0, 0, 2>>}

\* the 1-d array of a sequence of integers
Vector(seq) ==
    [shape |-> <<Len(seq)>>, at |-> [i \in Indices(<<Len(seq)>>) |-> F(seq[i[1]])]]

\* the 2-d array whose rows are the given sequences of integers
Matrix(rows, width) ==
    [shape |-> <<Len(rows), width>>,
     at |-> [i \in Indices(<<Len(rows), width>>) |-> F(rows[i[1]][i[2]])]]

\* the 3 x N array whose columns are the given points
Columns(points) ==
    [shape |-> <<3, Len(points)>>,
     at |-> [i \in Indices(<<3, Len(points)>>) |-> F(points[i[2]][i[1]])]]

\* omega as the caller gives it: a scalar, or a sequence (possibly empty)
OmegaInputs ==
    {Scalar(F(v)) : v \in OmegaVals}
    \cup UNION {{Vector(s) : s \in [1..n -> OmegaVals]} : n \in 0..MaxDim}

\* rows of length k: coordinates alternate between two values u, w
Rows(k) == {[i \in 1..k |-> IF i % 2 = 1 THEN u ELSE w] : u \in QVals, w \in QVals}

\* harmonic batches: N rows of length k, k not tied to ndim, and q = [[2.0]]
HOBatches ==
    {Matrix(<<(<<2>>)>>, 1)} \cup
    UNION {UNION {{Matrix(rows, k) : rows \in [1..n -> Rows(k)]}
                  : n \in 1..MaxN} : k \in 1..MaxDim}

\* Kuzmin batches: 3 x N, and one 2 x 1 batch that cannot be unpacked
KuzminBatches ==
    UNION {{Columns(ps) : ps \in [1..n -> KPoints]} : n \in 1..MaxN}
    \cup {Matrix(<<(<<1>>), (<<2>>)>>, 1)}

NewHO(omega) ==
    HO_setup_potential(PotentialBaseNew(HO, F(1)), [omega |-> omega])

NewKuzmin(g, m, a) ==
    PotentialBaseSetup(PotentialBaseNew(Kuzmin, F(g)),
                       [m |-> Scalar(F(m)), a |-> Scalar(F(a))])

(***************************************************************************)
(* State.                                                                  *)
(***************************************************************************)
VARIABLES
    pot,      \* the potential instance: cls, parameters, ndim, G
    last,     \* the most recent operation on it, with its arguments and result
    pc,       \* per thread: "idle", "called", "loaded", "done"
    frame     \* per thread: the call in progress (op, q, t, locals, ret)

vars == <<pot, last, pc, frame>>

Threads == 1..NThreads

NoFrame == [op |-> "none"]

Init ==
    /\ \/ \E o \in OmegaInputs :
            /\ pot = NewHO(o)
            /\ last = [op |-> "new", parameters |-> [omega |-> o]]
       \/ \E g \in GVals, m \in MVals, a \in AVals :
            /\ pot = NewKuzmin(g, m, a)
            /\ last = [op |-> "new", parameters |-> pot.parameters]
    /\ pc = [th \in Threads |-> "idle"]
    /\ frame = [th \in Threads |-> NoFrame]

(***************************************************************************)
(* Sequential use: one caller.  Each call runs to completion and hands its *)
(* result to the caller, who drops it before the next operation.           *)
(***************************************************************************)
Holding == last.op \in {"energy", "gradient", "hessian"}

\* the caller may operate on an instance of the class
Ready(cls) == pot.cls = cls /\ ~Holding

\* what the caller holds after a call: its batch as it was and as it is, the result
Called(op, q, ret) == [op |-> op, q0 |-> q, q |-> q, ret |-> ret]

Setup(o) ==
    /\ pot' = HO_setup_potential(pot, [omega |-> o])
    /\ last' = [op |-> "setup", parameters |-> [omega |-> o]]
    /\ UNCHANGED <<pc, frame>>

Energy(q, t) ==
    /\ last' = Called("energy", q, HO_energy(pot, q, t))
    /\ UNCHANGED <<pot, pc, frame>>

Gradient(q, t) ==
    /\ last' = Called("gradient", q, HO_gradient(pot, q, t))
    /\ UNCHANGED <<pot, pc, frame>>

Hessian(q, t) ==
    /\ last' = Called("hessian", q, HO_hessian(pot, q, t))
    /\ UNCHANGED <<pot, pc, frame>>

KuzminEnergy(q, t) ==
    /\ last' = Called("energy", q, Kuzmin_energy(pot, q, t))
    /\ UNCHANGED <<pot, pc, frame>>

KuzminGradient(q, t) ==
    /\ last' = Called("gradient", q, Kuzmin_gradient(pot, q, t))
    /\ UNCHANGED <<pot, pc, frame>>

Discard ==
    /\ Holding
    /\ last' = [op |-> "none"]
    /\ UNCHANGED <<pot, pc, frame>>

Next ==
    \/ Ready(HO) /\ \E o \in OmegaInputs : Setup(o)
    \/ Ready(HO) /\ \E q \in HOBatches, t \in TVals : Energy(q, t)
    \/ Ready(HO) /\ \E q \in HOBatches, t \in TVals : Gradient(q, t)
    \/ Ready(HO) /\ \E q \in HOBatches, t \in TVals : Hessian(q, t)
    \/ Ready(Kuzmin) /\ \E q \in KuzminBatches, t \in TVals : KuzminEnergy(q, t)
    \/ Ready(Kuzmin) /\ \E q \in KuzminBatches, t \in TVals : KuzminGradient(q, t)
    \/ Discard

Spec == Init /\ [][Next]_vars

(***************************************************************************)
(* Concurrent use: several threads evaluate on one instance, each on its   *)
(* own batch.  A call is the method's two statements: the first reads the  *)
(* instance's parameters into locals, the second computes the result.      *)
(***************************************************************************)
Ops(cls) == IF cls = HO THEN {"energy", "gradient", "hessian"} ELSE {"energy", "gradient"}

\* the batch thread th evaluates: distinct threads hold distinct batches
ThreadBatch(cls, th) ==
    IF cls = HO THEN Matrix(<<(<<th, -1>>)>>, 2)
    ELSE Columns(<<(<<th, 0, -th>>)>>)

InitThreads ==
    /\ pot \in {NewHO(Vector(<<1, 2>>)), NewHO(Scalar(F(2))), NewKuzmin(2, 3, 1)}
    /\ last = [op |-> "none"]
    /\ pc = [th \in Threads |-> "idle"]
    /\ frame = [th \in Threads |-> NoFrame]

Call(th, op, t) ==
    /\ pc[th] = "idle"
    /\ op \in Ops(pot.cls)
    /\ pc' = [pc EXCEPT ![th] = "called"]
    /\ frame' = [frame EXCEPT ![th] =
            [op |-> op, q0 |-> ThreadBatch(pot.cls, th),
             q |-> ThreadBatch(pot.cls, th)]]
    /\ UNCHANGED <<pot, last>>

Load(th) ==
    /\ pc[th] = "called"
    /\ pc' = [pc EXCEPT ![th] = "loaded"]
    /\ frame' = [frame EXCEPT ![th] =
            [op |-> @.op, q0 |-> @.q0, q |-> @.q,
             loc |-> IF pot.cls = HO THEN HO_load(pot) ELSE Kuzmin_load(pot, @.q)]]
    /\ UNCHANGED <<pot, last>>

\* the second statement of the method thread th is in
Body(self, f) ==
    IF self.cls = HO
    THEN IF f.op = "energy" THEN HO_energy_body(f.loc, f.q)
         ELSE IF f.op = "gradient" THEN HO_gradient_body(f.loc, f.q)
         ELSE HO_hessian_body(f.loc, f.q)
    ELSE IF f.op = "energy" THEN Kuzmin_energy_body(self, f.loc, f.q)
         ELSE Kuzmin_gradient_body(self, f.loc, f.q)

\* faulty variant: the body squares omega (scales m by G) in place on the instance
Compute_InPlace(th) ==
    /\ pc[th] = "loaded"
    /\ pc' = [pc EXCEPT ![th] = "done"]
    /\ frame' = [frame EXCEPT ![th] =
            [op |-> @.op, q0 |-> @.q0, q |-> @.q, loc |-> @.loc,
             ret |-> Body(pot, @)]]
    /\ pot' = IF pot.cls = HO
              THEN [pot EXCEPT !.parameters.omega = NpSquare(@)]
              ELSE [pot EXCEPT !.parameters.m = NpMul(Scalar(pot.G), @)]
    /\ UNCHANGED last

Compute(th) ==
    /\ pc[th] = "loaded"
    /\ pc' = [pc EXCEPT ![th] = "done"]
    /\ frame' = [frame EXCEPT ![th] =
            [op |-> @.op, q0 |-> @.q0, q |-> @.q, loc |-> @.loc,
             ret |-> Body(pot, @)]]
    /\ UNCHANGED <<pot, last>>

Return(th) ==
    /\ pc[th] = "done"
    /\ pc' = [pc EXCEPT ![th] = "idle"]
    /\ frame' = [frame EXCEPT ![th] = NoFrame]
    /\ UNCHANGED <<pot, last>>

NextThreads ==
    \/ \E th \in Threads, op \in {"energy", "gradient", "hessian"}, t \in TVals :
            Call(th, op, t)
    \/ \E th \in Threads : Load(th)
    \/ \E th \in Threads : Compute(th)
    \/ \E th \in Threads : Return(th)

SpecThreads == InitThreads /\ [][NextThreads]_vars

(***************************************************************************)
(* Properties.                                                             *)
(***************************************************************************)
IsHO == pot.cls = HO

IsKuzmin == pot.cls = Kuzmin

Omega == pot.parameters.omega

\* a harmonic evaluation of the given kind has just returned to the caller
Did(op) == IsHO /\ last.op = op

KuzminDid(op) == IsKuzmin /\ last.op = op

\* rows and row length of the batch of the call just made
NRows == last.q0.shape[1]

RowLen == last.q0.shape[2]

WellShaped == RowLen = pot.ndim

\* omega_i and q[k][i] as integers (the inputs of the model are integral)
Om(i) == Omega.at[<<i>>].n

Q(k, i) == last.q0.at[<<k, i>>].n

\* twice the energy of row k: omega_i^2 q[k][i]^2 summed over the axes i..ndim
RECURSIVE TwiceEnergy(_, _)
TwiceEnergy(k, i) ==
    IF i > pot.ndim THEN 0
    ELSE Om(i) * Om(i) * Q(k, i) * Q(k, i) + TwiceEnergy(k, i + 1)

\* C1: hessian(q, t) has shape ndim x ndim x N and its slice for every sample
\* k is diag(omega_1^2, ..., omega_n^2): entry (i, i) is omega_i squared, every
\* off-diagonal entry is 0.
C1_HessianIsDiagOmegaSquared ==
    Did("hessian") =>
        /\ last.ret.shape = <<pot.ndim, pot.ndim, NRows>>
        /\ \A i \in 1..pot.ndim, j \in 1..pot.ndim, k \in 1..NRows :
              last.ret.at[<<i, j, k>>] = IF i = j THEN F(Om(i) * Om(i)) ELSE F(0)

\* the coordinates of sample k of a Kuzmin batch, and the instance's scalars
Point(q, k) == <<q.at[<<1, k>>], q.at[<<2, k>>], q.at[<<3, k>>]>>

KA == pot.parameters.a.at[<<>>]

KM == pot.parameters.m.at[<<>>]

\* the energy's divisor x^2 + y^2 + (a + |z|)^2 at one point
DenomAt(p) ==
    KuzminDenominator(Scalar(p[1]), Scalar(p[2]), Scalar(p[3]), Scalar(KA)).at[<<>>]

\* d/dq_c of the divisor D at p.  D is a quadratic polynomial in each
\* coordinate on either side of z = 0, so its central difference with step 1
\* is its exact derivative at every point with |z| >= 1.
DDenom(p, c) ==
    VMul(Half, VSub(DenomAt([p EXCEPT ![c] = VAdd(@, F(1))]),
                    DenomAt([p EXCEPT ![c] = VAdd(@, F(-1))])))

\* d/dq_c of -G m D^(-1/2)  =  (G m / 2) D^(-3/2) dD/dq_c
DEnergy(p, c) ==
    VDiv(VMul(VMul(pot.G, KM), VMul(Half, DDenom(p, c))), VPow15(DenomAt(p)))

\* C2: for a >= 0 and every sample with z # 0, each of the three components
\* of KuzminPotential.gradient equals the partial derivative of the energy
\* -G m / sqrt(x^2 + y^2 + (a + |z|)^2) with respect to that coordinate.
C2_KuzminGradientIsDerivative ==
    (KuzminDid("gradient") /\ IsArray(last.ret) /\ KA.n >= 0) =>
        \A k \in 1..last.q0.shape[2] :
            Point(last.q0, k)[3].n # 0 =>
                \A c \in 1..3 : last.ret.at[<<c, k>>] = DEnergy(Point(last.q0, k), c)

\* C3: energy(q, t) and gradient(q, t) fail, returning no result, whenever
\* the row length of q differs from ndim (row length 1 and ndim 1 included).
C3_RowLengthMismatchFails ==
    ((Did("energy") \/ Did("gradient")) /\ ~WellShaped) => ~IsArray(last.ret)

\* C4: energy(q, t) returns one scalar per input row, in row order:
\* output[k] = sum over i of 0.5 * omega_i^2 * q[k][i]^2, a function of row k
\* alone; omega=[1], q=[[2]] gives [2.0]; omega=[1,2], q=[[1,1]] gives [2.5].
C4_EnergyPerRow ==
    (Did("energy") /\ WellShaped) =>
        /\ IsArray(last.ret)
        /\ last.ret.shape = <<NRows>>
        /\ \A k \in 1..NRows : last.ret.at[<<k>>] = Num(TwiceEnergy(k, 1), 2, 1)
        /\ (Omega = Vector(<<1>>) /\ last.q0 = Matrix(<<(<<2>>)>>, 1))
              => last.ret = Vector(<<2>>)
        /\ (Omega = Vector(<<1, 2>>) /\ last.q0 = Matrix(<<(<<1, 1>>)>>, 2))
              => last.ret.at[<<1>>] = Num(5, 2, 1)

C4_Witness ==
    /\ Did("energy")
    /\ Omega = Vector(<<1, 2>>)
    /\ last.q0 = Matrix(<<(<<1, 1>>), (<<-2, 1>>)>>, 2)
    /\ last.ret.at[<<1>>] = Num(5, 2, 1)
    /\ last.ret.at[<<2>>] = Num(8, 2, 1)

\* steps of the finite difference
HVals == {F(-1), F(2), Half}

\* the batch q with h added to q[k][i]
Nudge(q, k, i, h) == [q EXCEPT !.at[<<k, i>>] = VAdd(@, h)]

\* C5: gradient(Q) is the derivative of energy: component i of sample k is
\* omega_i^2 * Q[k][i], and it equals the central finite difference
\* (energy(Q + h e_i) - energy(Q - h e_i)) / (2h) of row k for every h # 0.
C5_GradientIsDerivative ==
    (Did("gradient") /\ WellShaped) =>
        /\ IsArray(last.ret)
        /\ last.ret.shape = <<NRows, pot.ndim>>
        /\ \A k \in 1..NRows, i \in 1..pot.ndim :
              /\ last.ret.at[<<k, i>>] = F(Om(i) * Om(i) * Q(k, i))
              /\ \A h \in HVals, t \in TVals :
                    VSub(HO_energy(pot, Nudge(last.q0, k, i, h), t).at[<<k>>],
                         HO_energy(pot, Nudge(last.q0, k, i, VNeg(h)), t).at[<<k>>])
                    = VMul(VMul(F(2), h), last.ret.at[<<k, i>>])

C5_Witness ==
    /\ Did("gradient")
    /\ Omega = Vector(<<1, 2>>)
    /\ last.q0 = Matrix(<<(<<1, 1>>), (<<-2, 1>>)>>, 2)
    /\ last.ret = Matrix(<<(<<1, 4>>), (<<-2, 4>>)>>, 2)

\* the omega given to the constructor or to the latest setup
Given == last.parameters.omega

JustSetUp == IsHO /\ last.op \in {"new", "setup"}

\* C6 as stated: setup coerces omega to a 1-D sequence of length >= 1 and
\* sets ndim to that length; ndim == len(omega) in every later state; a scalar
\* gives ndim = 1; setup with the same input again changes nothing.
C6_SetupLengthAtLeastOne ==
    IsHO =>
        /\ Len(Omega.shape) = 1
        /\ NpLen(Omega) >= 1
        /\ pot.ndim = NpLen(Omega)
        /\ JustSetUp =>
              /\ (Len(Given.shape) = 0 => pot.ndim = 1)
              /\ HO_setup_potential(pot, last.parameters) = pot

\* C6 amended: setup coerces omega to a 1-D array, a scalar to length 1 and
\* a sequence to itself, so its length is >= 1 exactly when the input is a
\* scalar or a non-empty sequence (an empty sequence gives ndim = 0); ndim ==
\* len(omega) in every state after construction, whatever calls and setups
\* follow; setup with the same input again leaves omega and ndim unchanged.
C6_SetupNdimIsLength ==
    IsHO =>
        /\ Len(Omega.shape) = 1
        /\ pot.ndim = NpLen(Omega)
        /\ JustSetUp =>
              /\ (Len(Given.shape) = 0 =>
                    pot.ndim = 1 /\ Omega.at[<<1>>] = Given.at[<<>>])
              /\ (Len(Given.shape) = 1 => Omega = Given)
              /\ (NpLen(Omega) >= 1 <=> Given # Vector(<<>>))
              /\ HO_setup_potential(pot, last.parameters) = pot

C6_Witness ==
    /\ IsHO /\ last.op = "setup"
    /\ Given = Scalar(F(2))
    /\ Omega = Vector(<<2>>)
    /\ pot.ndim = 1

\* the batch with z replaced by -z in every sample
FlipZ(q) == [q EXCEPT !.at = [i \in DOMAIN q.at |->
                IF i[1] = 3 THEN VNeg(q.at[i]) ELSE q.at[i]]]

\* C7: replacing z by -z leaves the Kuzmin energy and the x- and y-components
\* of the gradient unchanged, and changes the sign of the gradient's
\* z-component, for every m, a and every sample.
C7_KuzminMirrorZ ==
    /\ (KuzminDid("energy") /\ IsArray(last.ret)) =>
          \A t \in TVals : Kuzmin_energy(pot, FlipZ(last.q0), t) = last.ret
    /\ (KuzminDid("gradient") /\ IsArray(last.ret)) =>
          \A t \in TVals, i \in DOMAIN last.ret.at :
              LET g == Kuzmin_gradient(pot, FlipZ(last.q0), t)
              IN 
                 g.at[i] = IF i[1] = 3 THEN VNeg(last.ret.at[i]) ELSE last.ret.at[i]

C7_Witness ==
    /\ KuzminDid("gradient")
    /\ KM.n # 0
    /\ last.q0 = Columns(<<(<<1, 2, -1>>), (<<1, 2, 1>>)>>)
    /\ last.ret.at[<<3, 1>>] = VNeg(last.ret.at[<<3, 2>>])
    /\ last.ret.at[<<3, 1>>].n < 0
    /\ last.ret.at[<<1, 1>>] = last.ret.at[<<1, 2>>]

Origin == <<F(0), F(0), F(0)>>

\* C8: with a >= 0 the Kuzmin energy divides by zero (a non-finite result)
\* exactly when a = 0 and the sample is the origin; for a > 0 the divisor is
\* positive at every sample and the energy at the origin is -G m / a
\* (G = m = a = 1 gives -1.0).
C8_KuzminSingularOnlyAtOrigin ==
    (KuzminDid("energy") /\ IsArray(last.ret) /\ KA.n >= 0) =>
        \A k \in 1..last.q0.shape[2] :
            LET p == Point(last.q0, k)
            IN  /\ ~IsFin(last.ret.at[<<k>>]) <=> (KA.n = 0 /\ p = Origin)
                /\ DenomAt(p).n = 0 <=> ~IsFin(last.ret.at[<<k>>])
                /\ KA.n > 0 => DenomAt(p).n > 0
                /\ (KA.n > 0 /\ p = Origin) =>
                      last.ret.at[<<k>>] = Num(-(pot.G.n * KM.n), KA.n, 1)
                /\ (KA = F(1) /\ KM = F(1) /\ pot.G = F(1) /\ p = Origin) =>
                      last.ret.at[<<k>>] = F(-1)

C8_Witness ==
    /\ KuzminDid("energy")
    /\ KA = F(0) /\ KM = F(1)
    /\ last.q0 = Columns(<<(<<0, 0, 0>>), (<<0, 0, 2>>)>>)
    /\ last.ret.at[<<1>>] = NInf
    /\ last.ret.at[<<2>>] = Num(-pot.G.n, 2, 1)

\* the batch of the given shape with every coordinate equal to c
Constant(n, k, c) == [shape |-> <<n, k>>, at |-> [i \in Indices(<<n, k>>) |-> F(c)]]

\* C9: for a fixed omega the hessian is constant: the same ndim x ndim matrix
\* for every sample of a batch, the same for any two batches with the same
\* number of rows whatever their coordinates, and the same for every t.
C9_HessianConstant ==
    Did("hessian") =>
        /\ \A i \in 1..pot.ndim, j \in 1..pot.ndim, k \in 1..NRows :
              last.ret.at[<<i, j, k>>] = last.ret.at[<<i, j, 1>>]
        /\ \A k \in 1..MaxDim, c \in QVals, t \in TVals :
              HO_hessian(pot, Constant(NRows, k, c), t) = last.ret

C9_Witness ==
    /\ Did("hessian")
    /\ Omega = Vector(<<1, 2>>)
    /\ last.q0 = Matrix(<<(<<1, 1>>), (<<-2, 1>>)>>, 2)
    /\ last.ret.shape = <<2, 2, 2>>

\* what the call in frame f returns when it runs alone on the instance
Alone(self, f, t) ==
    IF self.cls = HO
    THEN IF f.op = "energy" THEN HO_energy(self, f.q0, t)
         ELSE IF f.op = "gradient" THEN HO_gradient(self, f.q0, t)
         ELSE HO_hessian(self, f.q0, t)
    ELSE IF f.op = "energy" THEN Kuzmin_energy(self, f.q0, t)
         ELSE Kuzmin_gradient(self, f.q0, t)

\* C10: every step of an evaluation call leaves the instance (parameters,
\* ndim) and the caller's batch q unchanged, and under any interleaving of
\* calls by several threads on distinct batches each call returns what it
\* returns when it runs alone.
C10_CallsIndependent ==
    /\ [](\A th \in Threads :
            /\ pc[th] # "idle" => frame[th].q = frame[th].q0
            /\ pc[th] = "done" =>
                  \A t \in TVals : frame[th].ret = Alone(pot, frame[th], t))
    /\ [][pot' = pot]_vars

C10_Witness ==
    /\ pc[1] = "done" /\ pc[2] = "loaded"
    /\ frame[1].op = "gradient" /\ frame[2].op = "energy"
    /\ frame[1].q0 # frame[2].q0
    /\ IsArray(frame[1].ret)

====
